---- MODULE Spec2Model ----
(***************************************************************************)
(* Model of band.cpp (THE MARCHING DATABASE, SQLite + C++ console app).    *)
(*                                                                         *)
(* The state is the content of band.db: the tables created by             *)
(* ensureTables.  Every handler of the console menus is a function from   *)
(* the tables and the operator's input to the new tables and the message  *)
(* the handler prints; the actions apply these functions.  A SQL statement *)
(* is atomic (SQLite runs in autocommit mode, the code opens no            *)
(* transaction): a statement whose constraint fails changes nothing.       *)
(*                                                                         *)
(* Representation: a nullable column holds NULL (the empty set) or {v}.    *)
(* INSTRUMENTS, UNIFORMS and SHAKOS have AUTOINCREMENT keys and no         *)
(* statement of the program deletes a row, so a table is the sequence of   *)
(* its rows and the row at index i has key i.  STUDENTS and COMPLIANCE     *)
(* are functions from STUDENT_ID to the row; SECTION_LEADERS is the set   *)
(* of its rows.  Free-text columns that no                                 *)
(* statement constrains or reads back in a WHERE clause (names, sizes,     *)
(* condition notes, coat and pant numbers) are left out of the rows.       *)
(***************************************************************************)
EXTENDS Integers, Sequences, FiniteSets, TLC

\* ---------------------------------------------------------------- bounds
\* Rows of INSTRUMENTS, UNIFORMS and SHAKOS together.
MaxRows == 3

\* ---------------------------------------------------------------- inputs
\* Student IDs the operator types (any may be absent from the roster).
StudentIds == {101, 202}
\* Sections the operator enters for new students.
RosterSections == {"WOODWIND", "BRASS"}
\* TYPE_IDs the operator types: PICCOLO, TRUMPET and an ID that is no type.
InputTypeIds == {1, 4, 10}
\* Serials the operator types ("" is the empty line).
InputSerials == {""}
\* Serials the operator types when stocking the inventory.
InventorySerials == {"", "S1", "S2"}
\* The values date('now') takes during a run, in calendar order.
Dates == <<"2024-09-01", "2024-09-02">>
\* Item IDs the operator types: every possible row and one ID past the last.
ItemIds == 1..(MaxRows + 1)
\* Compliance figures the operator types, on both sides of the thresholds;
\* GPA in hundredths (300 is 3.00).
InputHours == {11, 12}
InputGpa == {299, 300}
InputDues == {0, 1}
\* Sections the operator enters at "Set section leader".
LeaderSections == {"WOODWIND", "BRASS", "DM"}
\* Two console processes that share band.db.
Sessions == {"A", "B"}

\* ------------------------------------------------------ schema (constants)
NULL == {}

Sections == {"WOODWIND", "BRASS", "PERCUSSION", "AUXILIARY", "DM"}

\* INSTRUMENT_TYPES as seeded by ensureTables; TYPE_ID is the index.
InstrumentTypes ==
    << [name |-> "PICCOLO",     section |-> "WOODWIND"],
       [name |-> "CLARINET",    section |-> "WOODWIND"],
       [name |-> "SAXOPHONE",   section |-> "WOODWIND"],
       [name |-> "TRUMPET",     section |-> "BRASS"],
       [name |-> "TROMBONE",    section |-> "BRASS"],
       [name |-> "SOUSAPHONE",  section |-> "BRASS"],
       [name |-> "MELLOPHONE",  section |-> "BRASS"],
       [name |-> "PERCUSSION",  section |-> "PERCUSSION"],
       [name |-> "COLOR_GUARD", section |-> "AUXILIARY"] >>

VARIABLES
    students,     \* STUDENTS: STUDENT_ID -> [section]
    compliance,   \* COMPLIANCE: STUDENT_ID -> [hours, gpa, dues, verified]
    instruments,  \* INSTRUMENTS: seq of [type_id, serial, to, date]
    uniforms,     \* UNIFORMS: seq of [to, date]
    shakos,       \* SHAKOS: seq of [to, date]
    leaders,      \* SECTION_LEADERS: set of [section, leader]
    today,        \* the value of date('now')
    result,       \* the message the last handler printed
    pc,           \* per session: where its checkoutInstrument stands
    sess          \* per session: the locals of its checkoutInstrument

tables == <<students, compliance, instruments, uniforms, shakos, leaders>>
conc == <<pc, sess>>
vars == <<students, compliance, instruments, uniforms, shakos, leaders,
          today, result, pc, sess>>

\* ------------------------------------------------------------ constraints
\* The holders recorded in a table (its non-NULL CHECKED_OUT_TO values).
Holders(rows) == UNION {rows[i].to : i \in DOMAIN rows}

Holds(rows, studentId) == \E i \in DOMAIN rows : rows[i].to = {studentId}

\* Mutant: the CHECKED_OUT_TO column declared without UNIQUE.
UniqueCheckedOutTo_Off(rows) == TRUE

\* CHECKED_OUT_TO INTEGER UNIQUE: no two rows with the same non-NULL value.
UniqueCheckedOutTo(rows) ==
    \A i, j \in DOMAIN rows :
        (i # j /\ rows[i].to # NULL) => rows[i].to # rows[j].to

\* FOREIGN KEY (CHECKED_OUT_TO) REFERENCES STUDENTS(STUDENT_ID).
FKCheckedOutTo(rows, studs) == Holders(rows) \subseteq DOMAIN studs

\* Mutant: the SERIAL column declared without UNIQUE.
UniqueSerial_Off(rows) == TRUE

\* SERIAL TEXT UNIQUE: no two rows with the same non-NULL serial.
UniqueSerial(rows) ==
    \A i, j \in DOMAIN rows :
        (i # j /\ rows[i].serial # NULL) => rows[i].serial # rows[j].serial

\* FOREIGN KEY (TYPE_ID) REFERENCES INSTRUMENT_TYPES(TYPE_ID).
FKTypeId(rows) == \A i \in DOMAIN rows : rows[i].type_id \in DOMAIN InstrumentTypes

\* --------------------------------------------------------------- helpers
\* Mutant: the lookup reports every ID as present.
studentExists_Always(studs, studentId) == TRUE

studentExists(studs, studentId) == studentId \in DOMAIN studs

getStudentSection(studs, studentId) ==
    IF studentId \in DOMAIN studs
    THEN [ok |-> TRUE, section |-> studs[studentId].section]
    ELSE [ok |-> FALSE, section |-> ""]

\* Adds the pair id :> row to a table keyed by STUDENT_ID.
Put(tbl, id, row) ==
    [k \in DOMAIN tbl \cup {id} |-> IF k = id THEN row ELSE tbl[k]]

\* ---------------------------------------------------------------- roster
\* Mutant: the COMPLIANCE row of a new student starts with dues paid.
addStudent_DuesPaid(studs, comp, day, id, section, complianceOk) ==
    IF id \in DOMAIN studs
    THEN [studs |-> studs, comp |-> comp, msg |-> "Insert failed"]
    ELSE [studs |-> Put(studs, id, [section |-> section]),
          comp  |-> IF complianceOk /\ id \notin DOMAIN comp
                    THEN Put(comp, id, [hours |-> 0, gpa |-> 0, dues |-> 1,
                                        verified |-> day])
                    ELSE comp,
          msg   |-> "Student added"]

\* Mutant: INSERT OR REPLACE INTO STUDENTS; the replaced row takes its
\* COMPLIANCE row with it (ON DELETE CASCADE) and a default one is inserted.
addStudent_Replace(studs, comp, day, id, section, complianceOk) ==
    [studs |-> Put(studs, id, [section |-> section]),
     comp  |-> IF complianceOk
               THEN Put(comp, id, [hours |-> 0, gpa |-> 0, dues |-> 0,
                                   verified |-> day])
               ELSE [k \in DOMAIN comp \ {id} |-> comp[k]],
     msg   |-> "Student added"]

\* addStudent: INSERT INTO STUDENTS, then INSERT OR IGNORE INTO COMPLIANCE.
\* The first insert fails on a STUDENT_ID already present (PRIMARY KEY).
\* The result of the second statement is not checked: complianceOk is
\* whether it was prepared and stepped without a storage fault.
addStudent(studs, comp, day, id, section, complianceOk) ==
    IF id \in DOMAIN studs
    THEN [studs |-> studs, comp |-> comp, msg |-> "Insert failed"]
    ELSE [studs |-> Put(studs, id, [section |-> section]),
          comp  |-> IF complianceOk /\ id \notin DOMAIN comp
                    THEN Put(comp, id, [hours |-> 0, gpa |-> 0, dues |-> 0,
                                        verified |-> day])
                    ELSE comp,
          msg   |-> "Student added"]

AddStudent(id, section, complianceOk) ==
    LET r == addStudent(students, compliance, today, id, section, complianceOk) IN
    /\ students' = r.studs
    /\ compliance' = r.comp
    /\ result' = r.msg
    /\ UNCHANGED <<instruments, uniforms, shakos, today,
                 leaders, conc>>

\* updateStudentCompliance: studentExists, then INSERT INTO COMPLIANCE ...
\* ON CONFLICT(STUDENT_ID) DO UPDATE SET ..., stamped with date('now').
updateStudentCompliance(studs, comp, day, id, hours, gpa, dues) ==
    IF ~studentExists(studs, id)
    THEN [comp |-> comp, msg |-> "Student does not exist"]
    ELSE [comp |-> Put(comp, id, [hours |-> hours, gpa |-> gpa, dues |-> dues,
                                  verified |-> day]),
          msg  |-> "Compliance saved"]

UpdateStudentCompliance(id, hours, gpa, dues) ==
    LET r == updateStudentCompliance(students, compliance, today,
                                     id, hours, gpa, dues) IN
    /\ compliance' = r.comp
    /\ result' = r.msg
    /\ UNCHANGED <<students, instruments, uniforms, shakos, today,
                 leaders, conc>>

\* -------------------------------------------------------- section leaders
\* Mutant: INSERT OR IGNORE, which keeps the row a section already has.
setSectionLeader_Ignore(studs, ldrs, section, leaderId) ==
    IF ~studentExists(studs, leaderId)
    THEN [ldrs |-> ldrs, msg |-> "This student ID doesn'texist"]
    ELSE LET new == IF \E r \in ldrs : r.section = section
                    THEN ldrs
                    ELSE ldrs \cup {[section |-> section, leader |-> leaderId]}
         IN  IF section \in Sections /\ leaderId \in DOMAIN studs
             THEN [ldrs |-> new, msg |-> "Section leader saved"]
             ELSE [ldrs |-> ldrs, msg |-> "Set leader failed"]

\* Mutant: no studentExists test, on a table without the FOREIGN KEY.
setSectionLeader_NoCheck(studs, ldrs, section, leaderId) ==
    [ldrs |-> {r \in ldrs : r.section # section}
                 \cup {[section |-> section, leader |-> leaderId]},
     msg  |-> "Section leader saved"]

\* setSectionLeader: studentExists, then INSERT INTO SECTION_LEADERS ...
\* ON CONFLICT(SECTION) DO UPDATE SET LEADER_STUDENT_ID = excluded.
\* LEADER_STUDENT_ID, under CHECK (SECTION IN (...)) and FOREIGN KEY
\* (LEADER_STUDENT_ID) REFERENCES STUDENTS.
setSectionLeader(studs, ldrs, section, leaderId) ==
    IF ~studentExists(studs, leaderId)
    THEN [ldrs |-> ldrs, msg |-> "This student ID doesn'texist"]
    ELSE LET new == {r \in ldrs : r.section # section}
                       \cup {[section |-> section, leader |-> leaderId]}
         IN  IF section \in Sections /\ leaderId \in DOMAIN studs
             THEN [ldrs |-> new, msg |-> "Section leader saved"]
             ELSE [ldrs |-> ldrs, msg |-> "Set leader failed"]

SetSectionLeader(section, leaderId) ==
    LET r == setSectionLeader(students, leaders, section, leaderId) IN
    /\ leaders' = r.ldrs
    /\ result' = r.msg
    /\ UNCHANGED <<students, compliance, instruments, uniforms, shakos, today,
                   conc>>

\* ---------------------------------------------------------- roster views
\* c.<column> of "STUDENTS s LEFT JOIN COMPLIANCE c ON c.STUDENT_ID =
\* s.STUDENT_ID" under COALESCE(c.<column>, dflt).
Coalesce(comp, id, column, dflt) ==
    IF id \in DOMAIN comp THEN comp[id][column] ELSE dflt

YesNo(b) == IF b THEN "YES" ELSE "NO"

\* viewAllStudents: the HRS, GPA, DUES and ELIG columns of each student's
\* line; ELIG is computed by the SELECT.  (The lines are ordered by section
\* and name; the order is not part of the model.)
viewAllStudents(studs, comp) ==
    [id \in DOMAIN studs |->
        LET hrs  == Coalesce(comp, id, "hours", 0)
            gpa  == Coalesce(comp, id, "gpa", 0)
            dues == Coalesce(comp, id, "dues", 0)
            elig == hrs >= 12 /\ gpa >= 300 /\ dues = 1
        IN  [hrs |-> hrs, gpa |-> gpa, dues |-> YesNo(dues # 0),
             elig |-> YesNo(elig)]]

\* Mutant: the profile requires a GPA above 3.0.
findStudentById_StrictGpa(studs, comp, id) ==
    IF id \notin DOMAIN studs
    THEN [found |-> FALSE]
    ELSE LET hrs  == Coalesce(comp, id, "hours", 0)
             gpa  == Coalesce(comp, id, "gpa", 0)
             dues == Coalesce(comp, id, "dues", 0)
             eligible == hrs >= 12 /\ gpa > 300 /\ dues = 1
         IN  [found |-> TRUE, hrs |-> hrs, gpa |-> gpa, dues |-> YesNo(dues # 0),
              elig |-> YesNo(eligible), verified |-> Coalesce(comp, id, "verified", "")]

\* findStudentById: the profile of one student; `eligible` is computed by
\* the handler from the three columns it read.
findStudentById(studs, comp, id) ==
    IF id \notin DOMAIN studs
    THEN [found |-> FALSE]
    ELSE LET hrs  == Coalesce(comp, id, "hours", 0)
             gpa  == Coalesce(comp, id, "gpa", 0)
             dues == Coalesce(comp, id, "dues", 0)
             eligible == hrs >= 12 /\ gpa >= 300 /\ dues = 1
         IN  [found |-> TRUE, hrs |-> hrs, gpa |-> gpa, dues |-> YesNo(dues # 0),
              elig |-> YesNo(eligible), verified |-> Coalesce(comp, id, "verified", "")]

\* showEligibilityReport: OK_HRS, OK_GPA, OK_DUES and ELIG are computed by
\* the SELECT.
showEligibilityReport(studs, comp) ==
    [id \in DOMAIN studs |->
        LET hrs  == Coalesce(comp, id, "hours", 0)
            gpa  == Coalesce(comp, id, "gpa", 0)
            dues == Coalesce(comp, id, "dues", 0)
        IN  [hrs |-> hrs, gpa |-> gpa, dues |-> YesNo(dues # 0),
             okH |-> hrs >= 12, okG |-> gpa >= 300, okD |-> dues = 1,
             elig |-> YesNo(hrs >= 12 /\ gpa >= 300 /\ dues = 1),
             verified |-> Coalesce(comp, id, "verified", "")]]

\* ----------------------------------------------------------- instruments
\* addInstrumentToInventory: INSERT INTO INSTRUMENTS (TYPE_ID, SERIAL, ...).
\* An empty serial line is bound as NULL.
addInstrumentToInventory(ins, typeId, serial) ==
    LET row == [type_id |-> typeId,
                serial  |-> IF serial = "" THEN NULL ELSE {serial},
                to      |-> NULL,
                date    |-> NULL]
        new == Append(ins, row)
    IN  IF FKTypeId(new) /\ UniqueSerial(new)
        THEN [ins |-> new, msg |-> "Instrument added"]
        ELSE [ins |-> ins, msg |-> "Add failed"]

\* The IDs the listing of checkoutInstrument shows: sqlFiltered (filter = 1)
\* or sqlAll (filter = 2).
availableInstruments(ins, filter, section) ==
    {i \in DOMAIN ins :
        /\ ins[i].to = NULL
        /\ filter = 1 => InstrumentTypes[ins[i].type_id].section = section}

\* Mutant: the UPDATE without "AND CHECKED_OUT_TO IS NULL".
updCheckoutInstrument_NoNullGuard(studs, ins, day, studentId, instrumentId) ==
    LET hit == {i \in DOMAIN ins : i = instrumentId}
        new == [i \in DOMAIN ins |->
                   IF i \in hit
                   THEN [ins[i] EXCEPT !.to = {studentId}, !.date = {day}]
                   ELSE ins[i]]
    IN  IF ~(UniqueCheckedOutTo(new) /\ FKCheckedOutTo(new, studs))
        THEN [ins |-> ins, msg |-> "Checkout failed"]
        ELSE IF hit = {}
        THEN [ins |-> ins, msg |-> "Invalid"]
        ELSE [ins |-> new, msg |-> "Instrument checked out"]

\* Mutant: the UPDATE on a table whose CHECKED_OUT_TO is not UNIQUE.
updCheckoutInstrument_NoUnique(studs, ins, day, studentId, instrumentId) ==
    LET hit == {i \in DOMAIN ins : i = instrumentId /\ ins[i].to = NULL}
        new == [i \in DOMAIN ins |->
                   IF i \in hit
                   THEN [ins[i] EXCEPT !.to = {studentId}, !.date = {day}]
                   ELSE ins[i]]
    IN  IF ~FKCheckedOutTo(new, studs)
        THEN [ins |-> ins, msg |-> "Checkout failed"]
        ELSE IF hit = {}
        THEN [ins |-> ins, msg |-> "Invalid"]
        ELSE [ins |-> new, msg |-> "Instrument checked out"]

\* UPDATE INSTRUMENTS SET CHECKED_OUT_TO=?, CHECKED_OUT_DATE=date('now')
\* WHERE INSTRUMENT_ID=? AND CHECKED_OUT_TO IS NULL; then sqlite3_changes.
updCheckoutInstrument(studs, ins, day, studentId, instrumentId) ==
    LET hit == {i \in DOMAIN ins : i = instrumentId /\ ins[i].to = NULL}
        new == [i \in DOMAIN ins |->
                   IF i \in hit
                   THEN [ins[i] EXCEPT !.to = {studentId}, !.date = {day}]
                   ELSE ins[i]]
    IN  IF ~(UniqueCheckedOutTo(new) /\ FKCheckedOutTo(new, studs))
        THEN [ins |-> ins, msg |-> "Checkout failed"]
        ELSE IF hit = {}
        THEN [ins |-> ins, msg |-> "Invalid"]
        ELSE [ins |-> new, msg |-> "Instrument checked out"]

\* Mutant: the handler accepts only an ID that its listing showed.
checkoutInstrument_ListedOnly(studs, ins, day, studentId, filter, instrumentId) ==
    LET sec == getStudentSection(studs, studentId) IN
    IF ~sec.ok
    THEN [ins |-> ins, msg |-> "Student does not exist"]
    ELSE IF availableInstruments(ins, filter, sec.section) = {}
    THEN [ins |-> ins, msg |-> "No instruments available"]
    ELSE IF instrumentId \notin availableInstruments(ins, filter, sec.section)
    THEN [ins |-> ins, msg |-> "Invalid"]
    ELSE updCheckoutInstrument(studs, ins, day, studentId, instrumentId)

checkoutInstrument(studs, ins, day, studentId, filter, instrumentId) ==
    LET sec == getStudentSection(studs, studentId) IN
    IF ~sec.ok
    THEN [ins |-> ins, msg |-> "Student does not exist"]
    ELSE IF availableInstruments(ins, filter, sec.section) = {}
    THEN [ins |-> ins, msg |-> "No instruments available"]
    ELSE updCheckoutInstrument(studs, ins, day, studentId, instrumentId)

\* The rows a "return" handler lists: WHERE CHECKED_OUT_TO IS NOT NULL.
checkedOut(rows) == {i \in DOMAIN rows : rows[i].to # NULL}

\* Mutant: the return is a DELETE of the row.
updReturn_Deletes(rows, id) ==
    LET hit == {i \in DOMAIN rows : i = id} IN
    [changes |-> Cardinality(hit),
     rows    |-> IF hit = {} THEN rows
                 ELSE [i \in 1..(Len(rows) - 1) |->
                          IF i < id THEN rows[i] ELSE rows[i + 1]]]

\* Mutant: the UPDATE without its WHERE clause.
updReturn_NoWhere(rows, id) ==
    [changes |-> Len(rows),
     rows    |-> [i \in DOMAIN rows |-> [rows[i] EXCEPT !.to = NULL, !.date = NULL]]]

\* Mutant: the UPDATE clears CHECKED_OUT_DATE only.
updReturn_KeepsHolder(rows, id) ==
    LET hit == {i \in DOMAIN rows : i = id} IN
    [changes |-> Cardinality(hit),
     rows    |-> [i \in DOMAIN rows |->
                     IF i \in hit THEN [rows[i] EXCEPT !.date = NULL] ELSE rows[i]]]

\* Mutant: the UPDATE clears CHECKED_OUT_TO only.
updReturn_KeepsDate(rows, id) ==
    LET hit == {i \in DOMAIN rows : i = id} IN
    [changes |-> Cardinality(hit),
     rows    |-> [i \in DOMAIN rows |->
                     IF i \in hit THEN [rows[i] EXCEPT !.to = NULL] ELSE rows[i]]]

\* UPDATE ... SET CHECKED_OUT_TO=NULL, CHECKED_OUT_DATE=NULL WHERE <key>=?
\* The rows the statement changes and the table afterwards.
updReturn(rows, id) ==
    LET hit == {i \in DOMAIN rows : i = id} IN
    [changes |-> Cardinality(hit),
     rows    |-> [i \in DOMAIN rows |->
                     IF i \in hit
                     THEN [rows[i] EXCEPT !.to = NULL, !.date = NULL]
                     ELSE rows[i]]]

returnInstrument(ins, instrumentId) ==
    IF checkedOut(ins) = {}
    THEN [ins |-> ins, msg |-> "None"]
    ELSE LET u == updReturn(ins, instrumentId) IN
         [ins |-> u.rows,
          msg |-> IF u.changes # 0 THEN "Instrument returned"
                                   ELSE "No instrument with that ID"]

AddInstrumentToInventory(typeId, serial) ==
    LET r == addInstrumentToInventory(instruments, typeId, serial) IN
    /\ Len(r.ins) + Len(uniforms) + Len(shakos) <= MaxRows
    /\ instruments' = r.ins
    /\ result' = r.msg
    /\ UNCHANGED <<students, compliance, uniforms, shakos, today,
                 leaders, conc>>

CheckoutInstrument(studentId, filter, instrumentId) ==
    LET r == checkoutInstrument(students, instruments, today,
                                studentId, filter, instrumentId) IN
    /\ instruments' = r.ins
    /\ result' = r.msg
    /\ UNCHANGED <<students, compliance, uniforms, shakos, today,
                 leaders, conc>>

ReturnInstrument(instrumentId) ==
    LET r == returnInstrument(instruments, instrumentId) IN
    /\ instruments' = r.ins
    /\ result' = r.msg
    /\ UNCHANGED <<students, compliance, uniforms, shakos, today,
                 leaders, conc>>

\* -------------------------------------------------------------- uniforms
\* Mutant: one holder slot per student shared by the three kinds.
checkoutUniform_SharedSlot(studs, uni, day, studentId) ==
    IF ~studentExists(studs, studentId)
    THEN [rows |-> uni, msg |-> "Student does not exist"]
    ELSE LET new == Append(uni, [to |-> {studentId}, date |-> {day}]) IN
         IF /\ UniqueCheckedOutTo(new) /\ FKCheckedOutTo(new, studs)
            /\ ~Holds(instruments, studentId) /\ ~Holds(shakos, studentId)
         THEN [rows |-> new, msg |-> "Uniform checked out"]
         ELSE [rows |-> uni, msg |-> "Checkout failed"]

\* checkoutUniform: INSERT INTO UNIFORMS (..., CHECKED_OUT_TO,
\* CHECKED_OUT_DATE) VALUES (..., ?, date('now')): a new row per checkout.
checkoutUniform(studs, uni, day, studentId) ==
    IF ~studentExists(studs, studentId)
    THEN [rows |-> uni, msg |-> "Student does not exist"]
    ELSE LET new == Append(uni, [to |-> {studentId}, date |-> {day}]) IN
         IF UniqueCheckedOutTo(new) /\ FKCheckedOutTo(new, studs)
         THEN [rows |-> new, msg |-> "Uniform checked out"]
         ELSE [rows |-> uni, msg |-> "Checkout failed"]

returnUniform(uni, uniformId) ==
    IF checkedOut(uni) = {}
    THEN [rows |-> uni, msg |-> "None"]
    ELSE LET u == updReturn(uni, uniformId) IN
         [rows |-> u.rows,
          msg  |-> IF u.changes # 0 THEN "Uniform returned"
                                    ELSE "No uniform with that ID"]

CheckoutUniform(studentId) ==
    LET r == checkoutUniform(students, uniforms, today, studentId) IN
    /\ Len(instruments) + Len(r.rows) + Len(shakos) <= MaxRows
    /\ uniforms' = r.rows
    /\ result' = r.msg
    /\ UNCHANGED <<students, compliance, instruments, shakos, today,
                 leaders, conc>>

ReturnUniform(uniformId) ==
    LET r == returnUniform(uniforms, uniformId) IN
    /\ uniforms' = r.rows
    /\ result' = r.msg
    /\ UNCHANGED <<students, compliance, instruments, shakos, today,
                 leaders, conc>>

\* ---------------------------------------------------------------- shakos
\* checkoutShako: INSERT INTO SHAKOS (SIZE, CONDITION_NOTES, CHECKED_OUT_TO,
\* CHECKED_OUT_DATE) VALUES (?, ?, ?, date('now')).
checkoutShako(studs, shk, day, studentId) ==
    IF ~studentExists(studs, studentId)
    THEN [rows |-> shk, msg |-> "Student does not exist"]
    ELSE LET new == Append(shk, [to |-> {studentId}, date |-> {day}]) IN
         IF UniqueCheckedOutTo(new) /\ FKCheckedOutTo(new, studs)
         THEN [rows |-> new, msg |-> "Shako checked out"]
         ELSE [rows |-> shk, msg |-> "Checkout failed"]

returnShako(shk, shakoId) ==
    IF checkedOut(shk) = {}
    THEN [rows |-> shk, msg |-> "None"]
    ELSE LET u == updReturn(shk, shakoId) IN
         [rows |-> u.rows,
          msg  |-> IF u.changes # 0 THEN "Shako returned"
                                    ELSE "No shako with that ID"]

CheckoutShako(studentId) ==
    LET r == checkoutShako(students, shakos, today, studentId) IN
    /\ Len(instruments) + Len(uniforms) + Len(r.rows) <= MaxRows
    /\ shakos' = r.rows
    /\ result' = r.msg
    /\ UNCHANGED <<students, compliance, instruments, uniforms, today,
                 leaders, conc>>

ReturnShako(shakoId) ==
    LET r == returnShako(shakos, shakoId) IN
    /\ shakos' = r.rows
    /\ result' = r.msg
    /\ UNCHANGED <<students, compliance, instruments, uniforms, today,
                 leaders, conc>>

\* ------------------------------------------------------ assignment views
\* The TYPE_IDs of INSTRUMENT_TYPES in the order of ORDER BY SECTION,
\* TYPE_NAME (text compared byte by byte).
TypeOrder == <<9, 7, 6, 5, 4, 8, 2, 1, 3>>

TypeRank(typeId) == CHOOSE k \in DOMAIN TypeOrder : TypeOrder[k] = typeId

\* ORDER BY on a list of integer sort keys, each ascending.
KeyLess(a, b) ==
    \E k \in DOMAIN a :
        /\ a[k] < b[k]
        /\ \A j \in 1..(k - 1) : a[j] = b[j]

\* "(CHECKED_OUT_TO IS NULL) DESC": the expression is 1 on a row without a
\* holder and 0 on a row with one, and DESC puts the 1s first.
IsNullDesc(row) == IF row.to = NULL THEN 0 ELSE 1

\* COALESCE(CHECKED_OUT_TO, 0) and COALESCE(CHECKED_OUT_DATE, '').
Line(rows, i) ==
    [id      |-> i,
     student |-> IF rows[i].to = NULL THEN 0 ELSE CHOOSE x \in rows[i].to : TRUE,
     date    |-> IF rows[i].date = NULL THEN ""
                 ELSE CHOOSE x \in rows[i].date : TRUE]

\* The lines of the rows in the order of their sort keys (no two rows
\* have the same key: the ID is its last part).
Listing(rows, key) ==
    [k \in 1..Len(rows) |->
        Line(rows, CHOOSE i \in DOMAIN rows :
                      Cardinality({j \in DOMAIN rows : KeyLess(key[j], key[i])})
                         = k - 1)]

\* viewInstrumentAssignments: ORDER BY (i.CHECKED_OUT_TO IS NULL) DESC,
\* t.SECTION, t.TYPE_NAME, i.INSTRUMENT_ID.
viewInstrumentAssignments(ins) ==
    Listing(ins, [i \in DOMAIN ins |->
                    <<IsNullDesc(ins[i]), TypeRank(ins[i].type_id), i>>])

\* viewUniformAssignments: ORDER BY (CHECKED_OUT_TO IS NULL) DESC, UNIFORM_ID.
viewUniformAssignments(uni) ==
    Listing(uni, [i \in DOMAIN uni |-> <<IsNullDesc(uni[i]), i>>])

\* viewShakoAssignments: ORDER BY (CHECKED_OUT_TO IS NULL) DESC, SHAKO_ID.
viewShakoAssignments(shk) ==
    Listing(shk, [i \in DOMAIN shk |-> <<IsNullDesc(shk[i]), i>>])

\* ----------------------------------------------------------------- clock
\* The calendar day changes between two handlers.
NextDay ==
    /\ \E k \in 1..(Len(Dates) - 1) : today = Dates[k] /\ today' = Dates[k + 1]
    /\ UNCHANGED <<students, compliance, instruments, uniforms, shakos, leaders,
                 result, conc>>

\* The locals of a session that has not started a handler.
NoLocals == [studentId |-> NULL, section |-> "", instrumentId |-> NULL, msg |-> ""]

\* --------------------------------------------------------- specification
\* band.db as ensureTables leaves a new database: every table empty.
Init ==
    /\ students = << >>
    /\ compliance = << >>
    /\ instruments = << >>
    /\ uniforms = << >>
    /\ shakos = << >>
    /\ leaders = {}
    /\ today = Dates[1]
    /\ result = "Started"
    /\ pc = [p \in Sessions |-> "menu"]
    /\ sess = [p \in Sessions |-> NoLocals]

\* The handlers of the instruments menu and addStudent; every statement runs
\* without a storage fault.
InstrumentHandlers ==
    \/ \E id \in StudentIds, sec \in RosterSections : AddStudent(id, sec, TRUE)
    \/ \E t \in InputTypeIds, s \in InputSerials : AddInstrumentToInventory(t, s)
    \/ \E id \in StudentIds, f \in {1, 2}, i \in 1..(Len(instruments) + 1) :
          CheckoutInstrument(id, f, i)
    \/ \E i \in 1..(Len(instruments) + 1) : ReturnInstrument(i)

\* The handlers of the uniforms and shakos menus.
GarmentHandlers ==
    \/ \E id \in StudentIds : CheckoutUniform(id)
    \/ \E i \in 1..(Len(uniforms) + 1) : ReturnUniform(i)
    \/ \E id \in StudentIds : CheckoutShako(id)
    \/ \E i \in 1..(Len(shakos) + 1) : ReturnShako(i)

\* One operator at the menus on one calendar day.
Next == InstrumentHandlers \/ GarmentHandlers

Spec == Init /\ [][Next]_vars

\* One operator at the instruments menu over several calendar days.
NextDays == InstrumentHandlers \/ NextDay

SpecDays == Init /\ [][NextDays]_vars

\* ------------------------------------------------------ roster runs
\* The roster and compliance menus.  The second insert of addStudent may be
\* lost (sqlite3_prepare_v2 or sqlite3_step failing, or the process ending
\* between the two autocommitted statements): its result is never checked.
NextRoster ==
    \/ \E id \in StudentIds, sec \in RosterSections, ok \in BOOLEAN :
          AddStudent(id, sec, ok)
    \/ \E id \in StudentIds, h \in InputHours, g \in InputGpa, d \in InputDues :
          UpdateStudentCompliance(id, h, g, d)
    \/ NextDay

SpecRoster == Init /\ [][NextRoster]_vars

\* ------------------------------------------------- section leader runs
\* addStudent and setSectionLeader of the students menu.
NextLeaders ==
    \/ \E id \in StudentIds, sec \in RosterSections : AddStudent(id, sec, TRUE)
    \/ \E sec \in LeaderSections, id \in StudentIds : SetSectionLeader(sec, id)

SpecLeaders == Init /\ [][NextLeaders]_vars

\* --------------------------------------------------------- inventory runs
\* The operator stocks the inventory, taking each TYPE_ID from the list
\* the handler prints and typing a serial or none.
NextInventory ==
    \E t \in InputTypeIds \cap DOMAIN InstrumentTypes, s \in InventorySerials :
        AddInstrumentToInventory(t, s)

SpecInventory == Init /\ [][NextInventory]_vars

\* ------------------------------------------- equipment on a kept roster
\* band.db after addStudent(101, WOODWIND), updateStudentCompliance(101,
\* 12, 3.00, 1) and setSectionLeader(DM, 101) on the first day.
InitFrame ==
    /\ students = (101 :> [section |-> "WOODWIND"])
    /\ compliance = (101 :> [hours |-> 12, gpa |-> 300, dues |-> 1,
                              verified |-> Dates[1]])
    /\ instruments = << >>
    /\ uniforms = << >>
    /\ shakos = << >>
    /\ leaders = {[section |-> "DM", leader |-> 101]}
    /\ today = Dates[1]
    /\ result = "Section leader saved"
    /\ pc = [p \in Sessions |-> "menu"]
    /\ sess = [p \in Sessions |-> NoLocals]

SpecFrame == InitFrame /\ [][Next]_vars

\* ------------------------------------------------- two console processes
\* Two processes run checkoutInstrument on the same band.db.  Each SQL
\* statement of the handler is one atomic step; the locals of the handler
\* (studentId, studentSection, instrumentId) live in sess.

\* getStudentSection(studentId, studentSection): SELECT SECTION FROM STUDENTS.
ciGetStudentSection(p, studentId) ==
    LET sec == getStudentSection(students, studentId) IN
    /\ pc[p] = "menu"
    /\ IF sec.ok
       THEN /\ pc' = [pc EXCEPT ![p] = "filter"]
            /\ sess' = [sess EXCEPT ![p].studentId = {studentId},
                                    ![p].section = sec.section]
       ELSE /\ pc' = [pc EXCEPT ![p] = "done"]
            /\ sess' = [sess EXCEPT ![p].studentId = {studentId},
                                    ![p].msg = "Student does not exist"]
    /\ UNCHANGED <<tables, today, result>>

\* The listing (sqlFiltered or sqlAll) and the test of `any`.
ciList(p, filter) ==
    /\ pc[p] = "filter"
    /\ IF availableInstruments(instruments, filter, sess[p].section) = {}
       THEN /\ pc' = [pc EXCEPT ![p] = "done"]
            /\ sess' = [sess EXCEPT ![p].msg = "No instruments available"]
       ELSE /\ pc' = [pc EXCEPT ![p] = "enter"]
            /\ UNCHANGED sess
    /\ UNCHANGED <<tables, today, result>>

\* The UPDATE with the instrumentId the operator entered.
ciUpdate(p, instrumentId) ==
    LET sid == CHOOSE x \in sess[p].studentId : TRUE
        r == updCheckoutInstrument(students, instruments, today, sid, instrumentId)
    IN
    /\ pc[p] = "enter"
    /\ instruments' = r.ins
    /\ pc' = [pc EXCEPT ![p] = "done"]
    /\ sess' = [sess EXCEPT ![p].instrumentId = {instrumentId}, ![p].msg = r.msg]
    /\ UNCHANGED <<students, compliance, uniforms, shakos, leaders, today, result>>

\* Both students are on the roster and one or two instruments, all
\* AVAILABLE, are in the inventory: a state addStudent and
\* addInstrumentToInventory reach on the first day.
InitConc ==
    /\ students \in [StudentIds -> [section : RosterSections]]
    /\ compliance = [id \in StudentIds |->
                        [hours |-> 0, gpa |-> 0, dues |-> 0, verified |-> Dates[1]]]
    /\ \E n \in 1..2 :
          instruments \in [1..n -> [type_id : {1, 4}, serial : {NULL},
                                    to : {NULL}, date : {NULL}]]
    /\ uniforms = << >>
    /\ shakos = << >>
    /\ leaders = {}
    /\ today = Dates[1]
    /\ result = "Instrument added"
    /\ pc = [p \in Sessions |-> "menu"]
    /\ sess = [p \in Sessions |-> NoLocals]

NextConc ==
    \/ \E p \in Sessions, id \in StudentIds : ciGetStudentSection(p, id)
    \/ \E p \in Sessions, f \in {1, 2} : ciList(p, f)
    \/ \E p \in Sessions, i \in 1..(Len(instruments) + 1) : ciUpdate(p, i)

SpecConc == InitConc /\ [][NextConc]_vars

\* ================================================================ claims

\* At most one row of a table is checked out to a given student.
AtMostOneEach(rows) ==
    \A s \in StudentIds : Cardinality({i \in DOMAIN rows : rows[i].to = {s}}) <= 1

\* C1: in every reachable state, for each kind (Instrument, Uniform, Shako),
\* no two items of that kind have the same non-empty checked_out_to.
C1_SingleHolder ==
    /\ AtMostOneEach(instruments)
    /\ AtMostOneEach(uniforms)
    /\ AtMostOneEach(shakos)

\* Two instruments are held by two students and a further checkout was
\* refused by the constraint.
C1_Witness ==
    /\ result = "Checkout failed"
    /\ Cardinality(Holders(instruments)) = 2

\* C2: every checked_out_to of every kind is empty or the ID of a student on
\* the roster, and a checkout (instrument, uniform, shako) that names an ID
\* not on the roster reports that the student does not exist, binds nothing
\* and creates no item.
C2_ReferentialIntegrity ==
    /\ Holders(instruments) \cup Holders(uniforms) \cup Holders(shakos)
          \subseteq DOMAIN students
    /\ \A sid \in StudentIds \ DOMAIN students :
          /\ \A f \in {1, 2}, i \in ItemIds :
                checkoutInstrument(students, instruments, today, sid, f, i)
                   = [ins |-> instruments, msg |-> "Student does not exist"]
          /\ checkoutUniform(students, uniforms, today, sid)
                = [rows |-> uniforms, msg |-> "Student does not exist"]
          /\ checkoutShako(students, shakos, today, sid)
                = [rows |-> shakos, msg |-> "Student does not exist"]

\* A checkout named an absent student while another student holds a uniform.
C2_Witness ==
    /\ result = "Student does not exist"
    /\ Holders(uniforms) # {}
    /\ StudentIds \ DOMAIN students # {}

\* Sessions p and q have both run the UPDATE of checkoutInstrument, for
\* different students, on the same existing instrument.
BothBound(p, q) ==
    /\ p # q
    /\ pc[p] = "done" /\ pc[q] = "done"
    /\ sess[p].instrumentId # NULL
    /\ sess[p].instrumentId = sess[q].instrumentId
    /\ sess[p].instrumentId \subseteq DOMAIN instruments
    /\ sess[p].studentId # sess[q].studentId

\* Session w checked the instrument out, session l was refused, and the
\* instrument is bound to w's student.
WinnerLoser(w, l) ==
    /\ sess[w].msg = "Instrument checked out"
    /\ sess[l].msg = "Invalid"
    /\ \A i \in sess[w].instrumentId : instruments[i].to = sess[w].studentId

\* C3: when two checkouts for different students, neither holding an
\* instrument, target the same AVAILABLE instrument and their statements
\* interleave in any order, exactly one succeeds, the other fails, and the
\* instrument stays bound to the winner.
C3_AtMostOneWinner ==
    \A p, q \in Sessions :
        BothBound(p, q) => (WinnerLoser(p, q) \/ WinnerLoser(q, p))

\* Both sessions ran their UPDATE on the same instrument.
C3_Witness == \E p, q \in Sessions : BothBound(p, q) /\ WinnerLoser(p, q)

\* An instrument held now can be returned and then checked out again, by
\* any student who then holds no instrument; an AVAILABLE instrument can be
\* checked out by any student who holds none.
InstrumentsCycle ==
    \A i \in DOMAIN instruments :
        LET ins == IF instruments[i].to = NULL THEN instruments
                   ELSE returnInstrument(instruments, i).ins
        IN  /\ ins[i].to = NULL
            /\ \A s \in DOMAIN students :
                  ~Holds(ins, s) =>
                     checkoutInstrument(students, ins, today, s, 2, i).ins[i].to = {s}

Refused == {"Checkout failed", "Invalid", "No instruments available"}

\* A checkout of kind K for a holder of kind K is refused and leaves the
\* table of kind K as it is.
HolderRefused ==
    \A s \in StudentIds :
        /\ Holds(instruments, s) =>
              \A f \in {1, 2}, i \in ItemIds :
                 LET r == checkoutInstrument(students, instruments, today, s, f, i)
                 IN  /\ r.ins = instruments
                     /\ r.msg \in Refused
                     /\ (i \in availableInstruments(instruments, f,
                                                   students[s].section))
                           => r.msg = "Checkout failed"
        /\ Holds(uniforms, s) =>
              checkoutUniform(students, uniforms, today, s)
                 = [rows |-> uniforms, msg |-> "Checkout failed"]
        /\ Holds(shakos, s) =>
              checkoutShako(students, shakos, today, s)
                 = [rows |-> shakos, msg |-> "Checkout failed"]

\* C5: a checkout of kind K for a student who holds an item of kind K fails
\* and changes no table: the holding stays, a targeted AVAILABLE instrument
\* stays AVAILABLE, no uniform or shako row is added.
C5_AlreadyHoldingRejected ==
    /\ []HolderRefused
    /\ [][result' \in Refused => UNCHANGED tables]_vars

\* A student who holds an instrument was refused another one that is
\* AVAILABLE (no uniform or shako exists, so the refusal is an instrument's).
C5_Witness ==
    /\ result = "Checkout failed"
    /\ uniforms = << >> /\ shakos = << >>
    /\ \E i, j \in DOMAIN instruments :
          instruments[i].to # NULL /\ instruments[j].to = NULL

\* C6: a checkout of kind K for a student on the roster who holds no item of
\* kind K succeeds whatever the student holds of the other kinds (for an
\* instrument: when the instrument is AVAILABLE and the view lists any).
C6_PerKindIndependence ==
    \A s \in DOMAIN students :
        /\ ~Holds(uniforms, s) =>
              checkoutUniform(students, uniforms, today, s)
                 = [rows |-> Append(uniforms, [to |-> {s}, date |-> {today}]),
                    msg  |-> "Uniform checked out"]
        /\ ~Holds(shakos, s) =>
              checkoutShako(students, shakos, today, s)
                 = [rows |-> Append(shakos, [to |-> {s}, date |-> {today}]),
                    msg  |-> "Shako checked out"]
        /\ ~Holds(instruments, s) =>
              \A f \in {1, 2}, i \in DOMAIN instruments :
                 (/\ instruments[i].to = NULL
                  /\ availableInstruments(instruments, f, students[s].section) # {})
                 => LET r == checkoutInstrument(students, instruments, today, s, f, i)
                    IN  r.msg = "Instrument checked out" /\ r.ins[i].to = {s}

\* One student holds an instrument, a uniform and a shako at once.
C6_Witness ==
    \E s \in DOMAIN students :
        Holds(instruments, s) /\ Holds(uniforms, s) /\ Holds(shakos, s)

\* C7 (as claimed): returning an item that exists and is AVAILABLE is
\* reported as not checked out, never as a successful return, and changes
\* nothing.
C7_ReturnOfAvailableNotReportedReturned ==
    /\ \A i \in DOMAIN instruments :
          instruments[i].to = NULL =>
             LET r == returnInstrument(instruments, i)
             IN  r.ins = instruments /\ r.msg # "Instrument returned"
    /\ \A u \in DOMAIN uniforms :
          uniforms[u].to = NULL =>
             LET r == returnUniform(uniforms, u)
             IN  r.rows = uniforms /\ r.msg # "Uniform returned"
    /\ \A k \in DOMAIN shakos :
          shakos[k].to = NULL =>
             LET r == returnShako(shakos, k)
             IN  r.rows = shakos /\ r.msg # "Shako returned"

\* C8: a giveBack of a CHECKED_OUT item succeeds whoever asks (the handler
\* takes the item ID only), clears checked_out_to and checked_out_date, and
\* leaves the former holder without an item of that kind, so that student's
\* next checkout of that kind succeeds.
C8_ReturnFreesHolder ==
    /\ \A i \in checkedOut(instruments) : \A s \in instruments[i].to :
          LET r == returnInstrument(instruments, i) IN
          /\ r.msg = "Instrument returned"
          /\ r.ins[i].to = NULL /\ r.ins[i].date = NULL
          /\ ~Holds(r.ins, s)
          /\ \A f \in {1, 2}, j \in DOMAIN r.ins :
                (/\ r.ins[j].to = NULL
                 /\ availableInstruments(r.ins, f, students[s].section) # {})
                => LET c == checkoutInstrument(students, r.ins, today, s, f, j)
                   IN  c.msg = "Instrument checked out" /\ c.ins[j].to = {s}
    /\ \A u \in checkedOut(uniforms) : \A s \in uniforms[u].to :
          LET r == returnUniform(uniforms, u) IN
          /\ r.msg = "Uniform returned"
          /\ r.rows[u].to = NULL /\ r.rows[u].date = NULL
          /\ ~Holds(r.rows, s)
          /\ checkoutUniform(students, r.rows, today, s).msg = "Uniform checked out"
    /\ \A k \in checkedOut(shakos) : \A s \in shakos[k].to :
          LET r == returnShako(shakos, k) IN
          /\ r.msg = "Shako returned"
          /\ r.rows[k].to = NULL /\ r.rows[k].date = NULL
          /\ ~Holds(r.rows, s)
          /\ checkoutShako(students, r.rows, today, s).msg = "Shako checked out"

\* The only instrument that was checked out has been returned.
C8_Witness ==
    /\ result = "Instrument returned"
    /\ instruments # << >>
    /\ checkedOut(instruments) = {}

\* C9: an instrument checkout that names an ID that is no instrument, or an
\* instrument that is CHECKED_OUT, fails and changes nothing: the holder and
\* the checkout date of a CHECKED_OUT instrument stay, no other row changes.
C9_UnavailableInstrumentRejected ==
    \A s \in StudentIds, f \in {1, 2}, i \in ItemIds :
        (i \notin DOMAIN instruments \/ instruments[i].to # NULL) =>
            LET r == checkoutInstrument(students, instruments, today, s, f, i)
            IN  r.ins = instruments /\ r.msg # "Instrument checked out"

\* A checkout that reached its UPDATE changed no row while an instrument is
\* CHECKED_OUT and a student on the roster holds none.
C9_Witness ==
    /\ result = "Invalid"
    /\ checkedOut(instruments) # {}
    /\ \E s \in DOMAIN students : ~Holds(instruments, s)

\* C10 (as claimed): a STUDENTS row exists for an ID exactly when a
\* COMPLIANCE row exists for it.
C10_StudentIffCompliance == DOMAIN students = DOMAIN compliance

\* The three roster views show student id with 0 credit hours, GPA 0.00,
\* dues not paid and not eligible.
ZeroFacts(studs, comp, id) ==
    LET all == viewAllStudents(studs, comp)[id]
        one == findStudentById(studs, comp, id)
        rep == showEligibilityReport(studs, comp)[id]
    IN  /\ all.hrs = 0 /\ all.gpa = 0 /\ all.dues = "NO" /\ all.elig = "NO"
        /\ one.hrs = 0 /\ one.gpa = 0 /\ one.dues = "NO" /\ one.elig = "NO"
        /\ rep.hrs = 0 /\ rep.gpa = 0 /\ rep.dues = "NO" /\ rep.elig = "NO"

\* C11: right after a successful addStudent the views show the new student
\* with 0 credit hours, GPA 0.0, dues unpaid and not eligible, and these
\* figures stay (so the student stays not eligible) through every step
\* that is not a successful updateStudentCompliance for that student.
C11_ZeroDefaultsUntilUpdate ==
    [][\A id \in StudentIds :
          /\ (id \notin DOMAIN students /\ id \in DOMAIN students')
                => (result' = "Student added"
                    /\ ZeroFacts(students', compliance', id))
          /\ id \in DOMAIN students => id \in DOMAIN students'
          /\ (id \in DOMAIN students /\ ZeroFacts(students, compliance, id)
                /\ ~ZeroFacts(students', compliance', id))
                => (/\ result' = "Compliance saved"
                    /\ \E h \in InputHours, g \in InputGpa, d \in InputDues :
                          UpdateStudentCompliance(id, h, g, d))]_vars

\* One student was made eligible after another was added, and the other
\* still shows the zero defaults.
C11_Witness ==
    /\ result = "Compliance saved"
    /\ \E a, b \in DOMAIN students :
          /\ findStudentById(students, compliance, a).elig = "YES"
          /\ ZeroFacts(students, compliance, b)

\* addStudent with an ID on the roster is refused and returns the tables
\* as they are.
DuplicateRefused ==
    \A id \in DOMAIN students, sec \in Sections, ok \in BOOLEAN :
        addStudent(students, compliance, today, id, sec, ok)
           = [studs |-> students, comp |-> compliance, msg |-> "Insert failed"]

\* C12: addStudent with an ID already on the roster fails and changes no
\* table: the STUDENTS row and the COMPLIANCE row (credit hours, GPA, dues,
\* last verified date) of that ID stay as they were.
C12_DuplicateStudentRejected ==
    /\ []DuplicateRefused
    /\ [][result' = "Insert failed" => UNCHANGED tables]_vars

\* A duplicate was refused on a later day than the student's compliance was
\* saved with figures that are not the defaults.
C12_Witness ==
    /\ result = "Insert failed"
    /\ \E id \in DOMAIN compliance :
          compliance[id].hours = 12 /\ compliance[id].verified # today

\* C13: for every student on the roster, viewAllStudents, findStudentById
\* and showEligibilityReport show the same eligibility, and it is YES
\* exactly when the credit hours are at least 12, the GPA at least 3.0 and
\* the dues paid (the figures of the COMPLIANCE row; 0, 0.0, unpaid where a
\* student has none).
C13_EligibilityAgrees ==
    \A id \in DOMAIN students :
        LET all  == viewAllStudents(students, compliance)[id]
            one  == findStudentById(students, compliance, id)
            rep  == showEligibilityReport(students, compliance)[id]
            has  == id \in DOMAIN compliance
            hrs  == IF has THEN compliance[id].hours ELSE 0
            gpa  == IF has THEN compliance[id].gpa ELSE 0
            dues == IF has THEN compliance[id].dues ELSE 0
            eligible == hrs >= 12 /\ gpa >= 300 /\ dues = 1
        IN  /\ one.found
            /\ all.elig = YesNo(eligible)
            /\ one.elig = YesNo(eligible)
            /\ rep.elig = YesNo(eligible)

\* One student sits exactly on both thresholds with dues paid and is shown
\* eligible; another misses the GPA threshold by 0.01.
C13_Witness ==
    \E a, b \in DOMAIN compliance :
        /\ a \in DOMAIN students /\ b \in DOMAIN students
        /\ compliance[a].hours = 12 /\ compliance[a].gpa = 300
        /\ compliance[a].dues = 1
        /\ findStudentById(students, compliance, a).elig = "YES"
        /\ compliance[b].hours = 12 /\ compliance[b].gpa = 299
        /\ compliance[b].dues = 1
        /\ findStudentById(students, compliance, b).elig = "NO"

\* C14: updateStudentCompliance for an ID that is not on the roster reports
\* that the student does not exist and changes nothing, so no COMPLIANCE
\* row exists for an ID that is not on the roster; for a student on the
\* roster it sets that student's credit hours, GPA and dues to the values
\* entered and leaves every other student's row as it is.
C14_UpdateComplianceNotFound ==
    /\ DOMAIN compliance \subseteq DOMAIN students
    /\ \A id \in StudentIds, h \in InputHours, g \in InputGpa, d \in InputDues :
          LET r == updateStudentCompliance(students, compliance, today, id, h, g, d)
          IN  IF id \notin DOMAIN students
              THEN r = [comp |-> compliance, msg |-> "Student does not exist"]
              ELSE /\ r.msg = "Compliance saved"
                   /\ DOMAIN r.comp = DOMAIN compliance \cup {id}
                   /\ r.comp[id].hours = h /\ r.comp[id].gpa = g
                   /\ r.comp[id].dues = d
                   /\ \A o \in DOMAIN compliance \ {id} : r.comp[o] = compliance[o]

\* An update named an ID that is not on the roster while the student who is
\* on it has figures that were saved before.
C14_Witness ==
    /\ result = "Student does not exist"
    /\ StudentIds \ DOMAIN students # {}
    /\ \E o \in DOMAIN compliance : compliance[o].hours = 12

\* The leaders recorded for a section.
LeadersOf(ldrs, section) == {r.leader : r \in {x \in ldrs : x.section = section}}

\* setSectionLeader for a student on the roster records that student as the
\* one leader of the section and leaves the rows of the other sections.
LastWriteWins ==
    /\ \A sec \in Sections : Cardinality(LeadersOf(leaders, sec)) <= 1
    /\ \A sec \in Sections, id \in DOMAIN students :
          LET r == setSectionLeader(students, leaders, sec, id)
          IN  /\ r.msg = "Section leader saved"
              /\ LeadersOf(r.ldrs, sec) = {id}
              /\ \A o \in Sections \ {sec} :
                    LeadersOf(r.ldrs, o) = LeadersOf(leaders, o)

\* C15: every section has at most one leader; a setSectionLeader for a
\* student on the roster succeeds whatever the student's own section and
\* whatever the student already leads, makes that student the section's
\* leader in place of the previous one and leaves every other section's
\* leader; and no other step changes the leaders.
C15_LeaderLastWriteWins ==
    /\ []LastWriteWins
    /\ [][leaders' # leaders => result' = "Section leader saved"]_vars

\* A student of the BRASS section leads both WOODWIND and DM.
C15_Witness ==
    /\ result = "Section leader saved"
    /\ \E id \in DOMAIN students :
          /\ students[id].section = "BRASS"
          /\ LeadersOf(leaders, "WOODWIND") = {id}
          /\ LeadersOf(leaders, "DM") = {id}

\* C16: setSectionLeader with an ID that is not on the roster reports that
\* the student does not exist and leaves SECTION_LEADERS as it is, and
\* every recorded leader is a student on the roster.
C16_SetLeaderNotFound ==
    /\ \A r \in leaders : r.leader \in DOMAIN students
    /\ \A sec \in Sections, id \in StudentIds \ DOMAIN students :
          setSectionLeader(students, leaders, sec, id)
             = [ldrs |-> leaders, msg |-> "This student ID doesn'texist"]

\* A section has a leader and a setSectionLeader named an absent student.
C16_Witness ==
    /\ result = "This student ID doesn'texist"
    /\ leaders # {}
    /\ StudentIds \ DOMAIN students # {}

\* The serial is the serial of an instrument in the inventory.
SerialTaken(ins, serial) == \E i \in DOMAIN ins : ins[i].serial = {serial}

\* C17 (as amended): adding an instrument succeeds, and yields a new
\* AVAILABLE instrument, exactly when the TYPE_ID is one of INSTRUMENT_TYPES
\* and the serial is empty or is not the serial of an instrument already in
\* the inventory (SERIAL is UNIQUE); otherwise the add fails and the
\* inventory stays as it is.  Any number of instruments can have no serial.
C17_AddSucceedsUnlessSerialTaken ==
    \A t \in InputTypeIds, s \in InventorySerials :
        LET r == addInstrumentToInventory(instruments, t, s)
            row == [type_id |-> t, serial |-> IF s = "" THEN NULL ELSE {s},
                    to |-> NULL, date |-> NULL]
        IN  IF t \in DOMAIN InstrumentTypes
               /\ (s = "" \/ ~SerialTaken(instruments, s))
            THEN r = [ins |-> Append(instruments, row), msg |-> "Instrument added"]
            ELSE r = [ins |-> instruments, msg |-> "Add failed"]

\* An add with a serial that an instrument already has was refused.
C17_Witness ==
    /\ result = "Add failed"
    /\ \E i, j \in DOMAIN instruments :
          i # j /\ instruments[i].serial = NULL /\ instruments[j].serial # NULL

\* C17 (as claimed): adding an instrument of a listed type succeeds for
\* every serial, also one an instrument in the inventory already has.
C17_AddAlwaysSucceeds ==
    \A t \in InputTypeIds \cap DOMAIN InstrumentTypes, s \in InventorySerials :
        LET r == addInstrumentToInventory(instruments, t, s)
        IN  /\ r.msg = "Instrument added"
            /\ Len(r.ins) = Len(instruments) + 1
            /\ r.ins[Len(r.ins)].to = NULL

\* The messages of a handler that created an item, and of one that was to
\* create an item and failed.
Created == {"Instrument added", "Uniform checked out", "Shako checked out"}
NotCreated == {"Add failed", "Checkout failed", "Student does not exist"}

\* From table old to table new no ID is removed and every new ID is
\* greater than every ID of old.
IdsGrow(old, new) ==
    /\ DOMAIN old \subseteq DOMAIN new
    /\ \A i \in DOMAIN new \ DOMAIN old : \A j \in DOMAIN old : j < i

\* The IDs of the three kinds that tables ins, uni and shk do not have yet.
NewIds(ins, uni, shk) ==
    <<DOMAIN ins \ DOMAIN instruments, DOMAIN uni \ DOMAIN uniforms,
      DOMAIN shk \ DOMAIN shakos>>

\* C18: in every step and for every kind, no item ID is removed and every
\* ID that is new is greater than every ID the kind had; the handler that
\* reports a creation made exactly one new ID, a handler that was to create
\* an item and failed made none.
C18_FreshMonotonicIds ==
    [][/\ IdsGrow(instruments, instruments')
       /\ IdsGrow(uniforms, uniforms')
       /\ IdsGrow(shakos, shakos')
       /\ result' \in NotCreated
             => NewIds(instruments', uniforms', shakos') = <<{}, {}, {}>>
       /\ result' \in Created
             => Cardinality(UNION {NewIds(instruments', uniforms', shakos')[k] :
                                     k \in 1..3}) = 1]_vars

\* A returned uniform kept its ID, the next uniform got a greater one, and
\* an add to the inventory has just failed next to the one instrument.
C18_Witness ==
    /\ result = "Add failed"
    /\ Len(instruments) = 1
    /\ Len(uniforms) = 2
    /\ uniforms[1].to = NULL /\ uniforms[2].to # NULL

\* In a listing every line with a holder comes before every line without.
CheckedOutFirst(view) ==
    \A a, b \in DOMAIN view :
        (view[a].student # 0 /\ view[b].student = 0) => a < b

\* C19 (as claimed): the assignments view of each kind lists every
\* checked-out item before every AVAILABLE item.
C19_CheckedOutListedFirst ==
    /\ CheckedOutFirst(viewInstrumentAssignments(instruments))
    /\ CheckedOutFirst(viewUniformAssignments(uniforms))
    /\ CheckedOutFirst(viewShakoAssignments(shakos))

\* Tables old and new have the same IDs and differ in at most one row.
OneRowAtMost(old, new) ==
    /\ DOMAIN new = DOMAIN old
    /\ Cardinality({i \in DOMAIN old : new[i] # old[i]}) <= 1

\* Table new is old, or old and one more row after it.
OneRowMore(old, new) ==
    \/ new = old
    \/ /\ Len(new) = Len(old) + 1
       /\ \A i \in DOMAIN old : new[i] = old[i]

\* The step is a checkout or a return of the kind.
InstrumentStep ==
    \/ \E s \in StudentIds, f \in {1, 2}, i \in 1..(Len(instruments) + 1) :
          CheckoutInstrument(s, f, i)
    \/ \E i \in 1..(Len(instruments) + 1) : ReturnInstrument(i)

UniformStep ==
    \/ \E s \in StudentIds : CheckoutUniform(s)
    \/ \E u \in 1..(Len(uniforms) + 1) : ReturnUniform(u)

ShakoStep ==
    \/ \E s \in StudentIds : CheckoutShako(s)
    \/ \E k \in 1..(Len(shakos) + 1) : ReturnShako(k)

\* What a step of the kind may change: at most one row of the kind (a
\* uniform or shako checkout: at most one row more, no row that exists)
\* and no row of the other two kinds, of STUDENTS, of COMPLIANCE or of
\* SECTION_LEADERS.  (INSTRUMENT_TYPES is written by ensureTables only.)
InstrumentFrame ==
    /\ OneRowAtMost(instruments, instruments')
    /\ UNCHANGED <<uniforms, shakos, students, compliance, leaders>>

UniformFrame ==
    /\ OneRowAtMost(uniforms, uniforms') \/ OneRowMore(uniforms, uniforms')
    /\ UNCHANGED <<instruments, shakos, students, compliance, leaders>>

ShakoFrame ==
    /\ OneRowAtMost(shakos, shakos') \/ OneRowMore(shakos, shakos')
    /\ UNCHANGED <<instruments, uniforms, students, compliance, leaders>>

\* C20: a checkout or return, successful or not, touches a single row of
\* its kind and nothing else: a step that changes more than the frame of a
\* kind allows is no checkout or return of that kind.
C20_SingleRowFrame ==
    [][/\ ~InstrumentFrame => ~InstrumentStep
       /\ ~UniformFrame => ~UniformStep
       /\ ~ShakoFrame => ~ShakoStep]_vars

\* A uniform was returned while another uniform and an instrument are
\* checked out, a section has a leader and compliance figures are saved.
C20_Witness ==
    /\ result = "Uniform returned"
    /\ checkedOut(uniforms) # {} /\ checkedOut(uniforms) # DOMAIN uniforms
    /\ checkedOut(instruments) # {}
    /\ leaders # {}
    /\ \E id \in DOMAIN compliance : compliance[id].hours = 12

\* In every row CHECKED_OUT_DATE is NULL exactly when CHECKED_OUT_TO is.
SlotConsistent(rows) ==
    \A i \in DOMAIN rows : (rows[i].to = NULL) <=> (rows[i].date = NULL)

\* C21: in every reachable state every instrument, uniform and shako has a
\* checkout date exactly when it has a holder, and every instrument is in
\* exactly one of the listing of available instruments and the listing of
\* checked-out instruments.
C21_SlotConsistency ==
    /\ SlotConsistent(instruments)
    /\ SlotConsistent(uniforms)
    /\ SlotConsistent(shakos)
    /\ \A i \in DOMAIN instruments :
          LET listed == i \in availableInstruments(instruments, 2, "")
              out    == i \in checkedOut(instruments) /\ instruments[i].date # NULL
          IN  listed # out

\* A shako was returned while an instrument and a uniform are checked out.
C21_Witness ==
    /\ result = "Shako returned"
    /\ \E k \in DOMAIN shakos : shakos[k].to = NULL /\ shakos[k].date = NULL
    /\ checkedOut(instruments) # {}
    /\ checkedOut(uniforms) # {}

\* C22: for a student on the roster who holds no instrument, when the
\* listing filtered by the student's section shows at least one
\* instrument, entering the ID of any AVAILABLE instrument, also one of
\* another section that the listing did not show, checks that instrument
\* out to the student; and when the chosen listing shows none, the handler
\* ends and binds nothing whatever ID was meant, also while AVAILABLE
\* instruments of other sections exist.
C22_FilterRestrictsListingOnly ==
    \A s \in DOMAIN students :
        LET sec == students[s].section IN
        /\ (~Holds(instruments, s)
              /\ availableInstruments(instruments, 1, sec) # {})
              => \A i \in availableInstruments(instruments, 2, sec) :
                    LET r == checkoutInstrument(students, instruments, today, s, 1, i)
                    IN  /\ r.msg = "Instrument checked out"
                        /\ r.ins[i].to = {s}
        /\ \A f \in {1, 2} :
              availableInstruments(instruments, f, sec) = {}
              => \A i \in ItemIds :
                    checkoutInstrument(students, instruments, today, s, f, i)
                       = [ins |-> instruments, msg |-> "No instruments available"]

\* A student holds an instrument of another section than the student's,
\* and a checkout ended at an empty listing while an instrument is
\* AVAILABLE.
C22_Witness ==
    /\ result = "No instruments available"
    /\ \E i \in DOMAIN instruments : instruments[i].to = NULL
    /\ \E j \in DOMAIN instruments : \E s \in instruments[j].to :
          InstrumentTypes[instruments[j].type_id].section # students[s].section

====
